---- MODULE Spec2Model ----
(***************************************************************************)
(* Model of the ip-in-subnet crate (src/lib.rs): the four public functions *)
(* iface_in_subnet, iface_in_any_subnet, iface_in_all_subnets and          *)
(* any_iface_in_any_subnet.                                                *)
(*                                                                         *)
(* A text (&str) is a sequence of one-character strings.  An Option or a   *)
(* Result is a sequence of length at most one: <<>> is None / Err(_),      *)
(* <<v>> is Some(v) / Ok(v).  An address is the sequence of its bits, most *)
(* significant first, so that the 32 and 128 bit widths are kept exactly.  *)
(*                                                                         *)
(* The text parsers of std::net and of the netaddr2 crate are called, not  *)
(* defined, by src/lib.rs.  They are modelled on the textual grammar:      *)
(* dotted decimal IPv4 (four octets, no leading zeros), colon-hex IPv6     *)
(* (eight groups, one optional "::" gap; the embedded dotted-quad tail is  *)
(* not modelled) and <address>/<prefix-length> for a network.              *)
(***************************************************************************)
EXTENDS Integers, Sequences, FiniteSets, TLC

VARIABLES fn, iface, ifaces, subnets, idx, iface4, iface6, result

vars == <<fn, iface, ifaces, subnets, idx, iface4, iface6, result>>

\* Bounds of the model: the longest list of networks and of addresses.
MaxSubnets == 3
MaxIfaces == 2

\* Bit widths of std::net::Ipv4Addr and std::net::Ipv6Addr.
V4Width == 32
V6Width == 128

None == <<>>
Some(v) == <<v>>

----------------------------------------------------------------------------
\* Texts used as inputs.
A_182_1 == <<"1", "9", "2", ".", "1", "6", "8", ".", "1", "8", "2", ".", "1">>  \* "192.168.182.1"
A_183_1 == <<"1", "9", "2", ".", "1", "6", "8", ".", "1", "8", "3", ".", "1">>  \* "192.168.183.1"
A_182_2 == <<"1", "9", "2", ".", "1", "6", "8", ".", "1", "8", "2", ".", "2">>  \* "192.168.182.2"
A_10_1 == <<"1", "0", ".", "0", ".", "0", ".", "1">>  \* "10.0.0.1"
A_182_200 == <<"1", "9", "2", ".", "1", "6", "8", ".", "1", "8", "2", ".", "2", "0", "0">>  \* "192.168.182.200"
A_fe80_1 == <<"f", "e", "8", "0", ":", ":", "1">>  \* "fe80::1"
A_fe80_2 == <<"f", "e", "8", "0", ":", ":", "2">>  \* "fe80::2"
A_fe80_1_full == <<"F", "E", "8", "0", ":", "0", ":", "0", ":", "0", ":", "0", ":", "0", ":", "0", ":", "1">>  \* "FE80:0:0:0:0:0:0:1"
A_db8_1 == <<"2", "0", "0", "1", ":", "d", "b", "8", ":", ":", "1">>  \* "2001:db8::1"
A_loop6 == <<":", ":", "1">>  \* "::1"
A_bogus == <<"b", "o", "g", "u", "s">>  \* "bogus"
A_short4 == <<"1", "9", "2", ".", "1", "6", "8", ".", "1", "8", "2">>  \* "192.168.182"
A_big4 == <<"1", "9", "2", ".", "1", "6", "8", ".", "2", "5", "6", ".", "1">>  \* "192.168.256.1"
A_empty == <<>>  \* ""
A_two_gaps == <<"f", "e", "8", "0", ":", ":", "1", ":", ":", "2">>  \* "fe80::1::2"
N_182_0_24 == <<"1", "9", "2", ".", "1", "6", "8", ".", "1", "8", "2", ".", "0", "/", "2", "4">>  \* "192.168.182.0/24"
N_182_1_24 == <<"1", "9", "2", ".", "1", "6", "8", ".", "1", "8", "2", ".", "1", "/", "2", "4">>  \* "192.168.182.1/24"
N_182_1_32 == <<"1", "9", "2", ".", "1", "6", "8", ".", "1", "8", "2", ".", "1", "/", "3", "2">>  \* "192.168.182.1/32"
N_182_2_32 == <<"1", "9", "2", ".", "1", "6", "8", ".", "1", "8", "2", ".", "2", "/", "3", "2">>  \* "192.168.182.2/32"
N_182_3_32 == <<"1", "9", "2", ".", "1", "6", "8", ".", "1", "8", "2", ".", "3", "/", "3", "2">>  \* "192.168.182.3/32"
N_181_0_24 == <<"1", "9", "2", ".", "1", "6", "8", ".", "1", "8", "1", ".", "0", "/", "2", "4">>  \* "192.168.181.0/24"
N_zero4 == <<"0", ".", "0", ".", "0", ".", "0", "/", "0">>  \* "0.0.0.0/0"
N_10987_0 == <<"1", "0", ".", "9", ".", "8", ".", "7", "/", "0">>  \* "10.9.8.7/0"
N_182_129_25 == <<"1", "9", "2", ".", "1", "6", "8", ".", "1", "8", "2", ".", "1", "2", "9", "/", "2", "5">>  \* "192.168.182.129/25"
N_fe80_10 == <<"f", "e", "8", "0", ":", ":", "/", "1", "0">>  \* "fe80::/10"
N_fe80_1_128 == <<"f", "e", "8", "0", ":", ":", "1", "/", "1", "2", "8">>  \* "fe80::1/128"
N_fe80_2_128 == <<"f", "e", "8", "0", ":", ":", "2", "/", "1", "2", "8">>  \* "fe80::2/128"
N_zero6 == <<":", ":", "/", "0">>  \* "::/0"
N_db8_32 == <<"2", "0", "0", "1", ":", "d", "b", "8", ":", ":", "/", "3", "2">>  \* "2001:db8::/32"
N_fe80_1_64 == <<"f", "e", "8", "0", ":", ":", "1", "/", "6", "4">>  \* "fe80::1/64"
N_fe80_3_127 == <<"f", "e", "8", "0", ":", ":", "3", "/", "1", "2", "7">>  \* "fe80::3/127"
N_bogus == <<"b", "o", "g", "u", "s">>  \* "bogus"
N_pfx33 == <<"1", "9", "2", ".", "1", "6", "8", ".", "1", "8", "2", ".", "0", "/", "3", "3">>  \* "192.168.182.0/33"
N_short4 == <<"1", "9", "2", ".", "1", "6", "8", ".", "1", "8", "2", "/", "2", "4">>  \* "192.168.182/24"
N_pfx_x == <<"1", "9", "2", ".", "1", "6", "8", ".", "1", "8", "2", ".", "0", "/", "x">>  \* "192.168.182.0/x"
N_pfx129 == <<"f", "e", "8", "0", ":", ":", "/", "1", "2", "9">>  \* "fe80::/129"
N_colons == <<"f", "e", "8", "0", ":", ":", ":", "/", "1", "0">>  \* "fe80:::/10"
N_empty == <<>>  \* ""
N_nopfx == <<"1", "9", "2", ".", "1", "6", "8", ".", "1", "8", "2", ".", "0", "/">>  \* "192.168.182.0/"

\* Address and network texts given to iface_in_subnet; the lists given to
\* the other functions are drawn from subsets of them.
AddrTexts ==
    {A_182_1, A_183_1, A_182_2, A_10_1, A_182_200, A_fe80_1, A_fe80_2,
     A_fe80_1_full, A_db8_1, A_loop6, A_bogus, A_short4, A_big4, A_empty,
     A_two_gaps}

MalformedNetTexts ==
    {N_bogus, N_pfx33, N_short4, N_pfx_x, N_pfx129, N_colons, N_empty, N_nopfx}

NetTexts ==
    {N_182_0_24, N_182_1_24, N_182_1_32, N_182_2_32, N_182_3_32, N_181_0_24,
     N_zero4, N_10987_0, N_182_129_25, N_fe80_10, N_fe80_1_128, N_fe80_2_128,
     N_zero6, N_db8_32, N_fe80_1_64, N_fe80_3_127} \cup MalformedNetTexts

\* Texts given to iface_in_any_subnet and iface_in_all_subnets.
ListAddrTexts == {A_182_1, A_182_2, A_fe80_1, A_bogus}

ListNetTexts ==
    {N_182_0_24, N_182_1_32, N_182_2_32, N_181_0_24, N_zero4, N_fe80_10,
     N_fe80_2_128, N_bogus, N_pfx33}

\* Texts given to any_iface_in_any_subnet.
PairAddrTexts == {A_182_1, A_182_2, A_fe80_1, A_bogus}

PairNetTexts == {N_181_0_24, N_182_2_32, N_182_3_32, N_fe80_10, N_fe80_2_128, N_bogus}

----------------------------------------------------------------------------
\* Text parsing.

DecDigits == {"0", "1", "2", "3", "4", "5", "6", "7", "8", "9"}
HexDigits == DecDigits \cup {"a", "b", "c", "d", "e", "f", "A", "B", "C", "D", "E", "F"}

DigitVal(c) ==
    CASE c = "0" -> 0 [] c = "1" -> 1 [] c = "2" -> 2 [] c = "3" -> 3
      [] c = "4" -> 4 [] c = "5" -> 5 [] c = "6" -> 6 [] c = "7" -> 7
      [] c = "8" -> 8 [] c = "9" -> 9
      [] c \in {"a", "A"} -> 10 [] c \in {"b", "B"} -> 11
      [] c \in {"c", "C"} -> 12 [] c \in {"d", "D"} -> 13
      [] c \in {"e", "E"} -> 14 [] c \in {"f", "F"} -> 15

\* The value of a digit string in the given radix, most significant digit first.
RECURSIVE DigitsValue(_, _)
DigitsValue(s, radix) ==
    IF s = <<>> THEN 0
    ELSE DigitsValue(SubSeq(s, 1, Len(s) - 1), radix) * radix + DigitVal(s[Len(s)])

\* str::split on one separator character: the pieces between the separators.
RECURSIVE SplitFrom(_, _, _, _)
SplitFrom(s, sep, k, cur) ==
    IF k > Len(s) THEN <<cur>>
    ELSE IF s[k] = sep THEN <<cur>> \o SplitFrom(s, sep, k + 1, <<>>)
    ELSE SplitFrom(s, sep, k + 1, Append(cur, s[k]))

Split(s, sep) == SplitFrom(s, sep, 1, <<>>)

AllIn(s, chars) == \A k \in 1..Len(s) : s[k] \in chars

\* One decimal octet of an IPv4 address: 1 to 3 digits, no leading zero, <= 255.
ParseOctet(s) ==
    IF /\ Len(s) \in 1..3
       /\ AllIn(s, DecDigits)
       /\ (Len(s) > 1 => s[1] # "0")
       /\ DigitsValue(s, 10) <= 255
    THEN Some(DigitsValue(s, 10))
    ELSE None

\* One group of an IPv6 address: 1 to 4 hexadecimal digits.
ParseGroup(s) ==
    IF Len(s) \in 1..4 /\ AllIn(s, HexDigits) THEN Some(DigitsValue(s, 16)) ELSE None

\* The w bits of n, most significant first.
Bits(n, w) == [k \in 1..w |-> (n \div (2 ^ (w - k))) % 2]

RECURSIVE Flatten(_)
Flatten(ss) == IF ss = <<>> THEN <<>> ELSE Head(ss) \o Flatten(Tail(ss))

\* <Ipv4Addr as FromStr>::from_str: Some(the 32 bits) or None.
Ipv4AddrFromStr(text) ==
    LET parts == Split(text, ".")
    IN  IF Len(parts) = 4 /\ \A k \in 1..4 : ParseOctet(parts[k]) # None
        THEN Some(Flatten([k \in 1..4 |-> Bits(ParseOctet(parts[k])[1], 8)]))
        ELSE None

\* The position of the first "::" of a text, 0 when there is none.
GapAt(text) ==
    LET at == {k \in 1..(Len(text) - 1) : text[k] = ":" /\ text[k + 1] = ":"}
    IN  IF at = {} THEN 0 ELSE CHOOSE k \in at : \A j \in at : k <= j

\* The colon-separated groups of a piece of an IPv6 text; the empty piece has none.
Groups(s) == IF s = <<>> THEN <<>> ELSE Split(s, ":")

\* <Ipv6Addr as FromStr>::from_str: Some(the 128 bits) or None.
Ipv6AddrFromStr(text) ==
    LET gap   == GapAt(text)
        head  == IF gap = 0 THEN Groups(text) ELSE Groups(SubSeq(text, 1, gap - 1))
        tail  == IF gap = 0 THEN <<>> ELSE Groups(SubSeq(text, gap + 2, Len(text)))
        n     == Len(head) + Len(tail)
        fill  == [k \in 1..(8 - n) |-> <<"0">>]
        all   == head \o fill \o tail
    IN  IF /\ (IF gap = 0 THEN n = 8 ELSE n <= 7)
           /\ \A k \in 1..Len(all) : ParseGroup(all[k]) # None
        THEN Some(Flatten([k \in 1..8 |-> Bits(ParseGroup(all[k])[1], 16)]))
        ELSE None

\* The prefix length of a network text: a decimal number (str::parse of an
\* unsigned integer: digits, leading zeros allowed), Some(p) or None.
ParsePrefix(s) ==
    IF Len(s) >= 1 /\ AllIn(s, DecDigits)
    THEN LET nz == {k \in 1..Len(s) : s[k] # "0"}
             first == IF nz = {} THEN Len(s) ELSE CHOOSE k \in nz : \A j \in nz : k <= j
             sig == SubSeq(s, first, Len(s))
         IN  IF Len(sig) > 3 THEN Some(1000) ELSE Some(DigitsValue(sig, 10))
    ELSE None

----------------------------------------------------------------------------
\* Networks (netaddr2::NetAddr).

\* The mask of a prefix length: p one bits, then zero bits.
MaskBits(p, w) == [k \in 1..w |-> IF k <= p THEN 1 ELSE 0]

BitAnd(x, y) == [k \in 1..Len(x) |-> x[k] * y[k]]

\* Netv4Addr::new / Netv6Addr::new: the network keeps its address masked.
NewNet(family, addr, mask) ==
    [family |-> family, addr |-> BitAnd(addr, mask), mask |-> mask]

\* The two halves of a network text, <address>/<prefix-length>.
NetParts(text) == Split(text, "/")

Netv4AddrFromStr(text) ==
    LET parts == NetParts(text)
    IN  IF Len(parts) # 2 THEN None
        ELSE LET a == Ipv4AddrFromStr(parts[1])
                 p == ParsePrefix(parts[2])
             IN  IF a = None \/ p = None THEN None
                 ELSE IF p[1] > V4Width THEN None
                 ELSE Some(NewNet("V4", a[1], MaskBits(p[1], V4Width)))

Netv6AddrFromStr(text) ==
    LET parts == NetParts(text)
    IN  IF Len(parts) # 2 THEN None
        ELSE LET a == Ipv6AddrFromStr(parts[1])
                 p == ParsePrefix(parts[2])
             IN  IF a = None \/ p = None THEN None
                 ELSE IF p[1] > V6Width THEN None
                 ELSE Some(NewNet("V6", a[1], MaskBits(p[1], V6Width)))

\* <NetAddr as FromStr>::from_str: Ok(NetAddr::V4(_)), Ok(NetAddr::V6(_)) or
\* Err(NetError::ParseError(_)), the last written None.
NetAddrFromStr(text) ==
    LET n4 == Netv4AddrFromStr(text)
    IN  IF n4 # None THEN n4 ELSE Netv6AddrFromStr(text)

\* str::parse::<T>() is T::from_str.  The parsers are tabulated once over the
\* texts of the model; any other text goes through from_str itself.
Ipv4AddrTable == [text \in AddrTexts |-> Ipv4AddrFromStr(text)]

Ipv6AddrTable == [text \in AddrTexts |-> Ipv6AddrFromStr(text)]

NetAddrTable == [text \in NetTexts |-> NetAddrFromStr(text)]

\* iface.parse::<Ipv4Addr>()
ParseIpv4Addr(text) ==
    IF text \in AddrTexts THEN Ipv4AddrTable[text] ELSE Ipv4AddrFromStr(text)

\* iface.parse::<Ipv6Addr>()
ParseIpv6Addr(text) ==
    IF text \in AddrTexts THEN Ipv6AddrTable[text] ELSE Ipv6AddrFromStr(text)

\* subnet.parse::<NetAddr>()
ParseNetAddr(text) ==
    IF text \in NetTexts THEN NetAddrTable[text] ELSE NetAddrFromStr(text)


\* contains without the mask: the address itself is compared.
ContainsUnmasked(net, addr) == addr = net.addr

\* Contains::contains: the address, masked, is the network's address.
Contains(net, addr) == BitAnd(addr, net.mask) = net.addr
----------------------------------------------------------------------------
\* Results: Result<bool, Box<dyn Error>>, "Pending" while the call runs and
\* "Panic" for Option::unwrap on None.

Ok(b) == IF b THEN "OkTrue" ELSE "OkFalse"

Functions ==
    {"iface_in_subnet", "iface_in_any_subnet", "iface_in_all_subnets",
     "any_iface_in_any_subnet"}

\* iface_in_subnet with the address parse failure returned as an error.
IfaceInSubnetStrictIface(ifaceText, subnetText) ==
    LET net == ParseNetAddr(subnetText)
    IN  IF net = None THEN "Err"
        ELSE IF net[1].family = "V4"
        THEN LET a == ParseIpv4Addr(ifaceText)
             IN  IF a # None THEN Ok(Contains(net[1], a[1])) ELSE "Err"
        ELSE LET a == ParseIpv6Addr(ifaceText)
             IN  IF a # None THEN Ok(Contains(net[1], a[1])) ELSE "Err"

\* iface_in_subnet with the network parse error turned into Ok(false).
IfaceInSubnetLenientNet(ifaceText, subnetText) ==
    LET net == ParseNetAddr(subnetText)
    IN  IF net = None THEN "OkFalse"
        ELSE IF net[1].family = "V4"
        THEN LET a == ParseIpv4Addr(ifaceText)
             IN  IF a # None THEN Ok(Contains(net[1], a[1])) ELSE "OkFalse"
        ELSE LET a == ParseIpv6Addr(ifaceText)
             IN  IF a # None THEN Ok(Contains(net[1], a[1])) ELSE "OkFalse"

\* pub fn iface_in_subnet(iface, subnet)
IfaceInSubnet(ifaceText, subnetText) ==
    LET net == ParseNetAddr(subnetText)
    IN  IF net = None THEN "Err"
        ELSE IF net[1].family = "V4"
        THEN LET a == ParseIpv4Addr(ifaceText)
             IN  IF a # None THEN Ok(Contains(net[1], a[1])) ELSE "OkFalse"
        ELSE LET a == ParseIpv6Addr(ifaceText)
             IN  IF a # None THEN Ok(Contains(net[1], a[1])) ELSE "OkFalse"

\* iface_in_any_subnet: `if ifaceN.is_none() { if let Ok(..) = parse { ifaceN =
\* Some(..) } else { continue } }`: the cache after the block.
CacheIface(cache, parsed) == IF cache = None THEN parsed ELSE cache

\* The block without its `continue`.
SkipSubnetNever(cache, parsed) == FALSE

\* Whether that block leaves the iteration by its `continue`.
SkipSubnet(cache, parsed) == cache = None /\ parsed = None

\* The parse error of a network swallowed as Ok(false).
AnyNetParseErrorSwallowed == "OkFalse"

\* iface_in_any_subnet: `Err(NetError::ParseError(e)) => return Err(e.into())`.
AnyNetParseError == "Err"

NoSubnetMatchedTrue == "OkTrue"

\* iface_in_any_subnet: the `Ok(false)` after the loop.
NoSubnetMatched == "OkFalse"

\* iface_in_all_subnets: the `Ok(true)` after the loop.
AllSubnetsMatched == "OkTrue"

\* The test of the any-variant: leave the loop on Ok(true).
IsOkTrue(res) == res = "OkTrue"

\* iface_in_all_subnets: `if let Ok(false) = res`.
IsOkFalse(res) == res = "OkFalse"

AnyAnyNetParseErrorSwallowed == "OkFalse"

\* any_iface_in_any_subnet: `Err(NetError::ParseError(e)) => return Err(e.into())`.
AnyAnyNetParseError == "Err"

\* The inner loop looking at the first address only.
FirstIface4In(net, texts) ==
    /\ texts # <<>>
    /\ LET a == ParseIpv4Addr(texts[1]) IN a # None /\ Contains(net, a[1])

\* any_iface_in_any_subnet: the inner loops over ifaces, which return Ok(true)
\* at the first address that parses and that the network contains.
AnyIface4In(net, texts) ==
    \E k \in 1..Len(texts) :
        LET a == ParseIpv4Addr(texts[k]) IN a # None /\ Contains(net, a[1])

AnyIface6In(net, texts) ==
    \E k \in 1..Len(texts) :
        LET a == ParseIpv6Addr(texts[k]) IN a # None /\ Contains(net, a[1])

----------------------------------------------------------------------------
\* The calls.

RECURSIVE SeqsOfLen(_, _)
SeqsOfLen(S, n) ==
    IF n = 0 THEN {<<>>}
    ELSE {Append(s, x) : s \in SeqsOfLen(S, n - 1), x \in S}

SeqsUpTo(S, n) == UNION {SeqsOfLen(S, k) : k \in 0..n}

Init ==
    /\ fn \in Functions
    /\ idx = 1
    /\ iface4 = None
    /\ iface6 = None
    /\ result = "Pending"
    /\ \/ /\ fn = "iface_in_subnet"
          /\ iface \in AddrTexts
          /\ ifaces = <<>>
          /\ subnets \in SeqsOfLen(NetTexts, 1)
       \/ /\ fn \in {"iface_in_any_subnet", "iface_in_all_subnets"}
          /\ iface \in ListAddrTexts
          /\ ifaces = <<>>
          /\ subnets \in SeqsUpTo(ListNetTexts, MaxSubnets)
       \/ /\ fn = "any_iface_in_any_subnet"
          /\ iface = <<>>
          /\ ifaces \in SeqsUpTo(PairAddrTexts, MaxIfaces)
          /\ subnets \in SeqsUpTo(PairNetTexts, MaxSubnets)

Running(f) == fn = f /\ result = "Pending"

InLoop(f) == Running(f) /\ idx <= Len(subnets)

\* iface_in_subnet, the whole call.
CallIfaceInSubnet ==
    /\ Running("iface_in_subnet")
    /\ result' = IfaceInSubnet(iface, subnets[1])
    /\ UNCHANGED <<fn, iface, ifaces, subnets, idx, iface4, iface6>>

\* iface_in_any_subnet, one iteration on an IPv4 network.
AnySubnetV4 ==
    /\ InLoop("iface_in_any_subnet")
    /\ LET net == ParseNetAddr(subnets[idx])
       IN  /\ net # None
           /\ net[1].family = "V4"
           /\ IF SkipSubnet(iface4, ParseIpv4Addr(iface))
              THEN /\ idx' = idx + 1
                   /\ UNCHANGED <<iface4, result>>
              ELSE /\ iface4' = CacheIface(iface4, ParseIpv4Addr(iface))
                   /\ IF CacheIface(iface4, ParseIpv4Addr(iface)) = None
                      THEN result' = "Panic" /\ UNCHANGED idx
                      ELSE IF Contains(net[1], CacheIface(iface4, ParseIpv4Addr(iface))[1])
                      THEN result' = "OkTrue" /\ UNCHANGED idx
                      ELSE idx' = idx + 1 /\ UNCHANGED result
    /\ UNCHANGED <<fn, iface, ifaces, subnets, iface6>>

\* iface_in_any_subnet, one iteration on an IPv6 network.
AnySubnetV6 ==
    /\ InLoop("iface_in_any_subnet")
    /\ LET net == ParseNetAddr(subnets[idx])
       IN  /\ net # None
           /\ net[1].family = "V6"
           /\ IF SkipSubnet(iface6, ParseIpv6Addr(iface))
              THEN /\ idx' = idx + 1
                   /\ UNCHANGED <<iface6, result>>
              ELSE /\ iface6' = CacheIface(iface6, ParseIpv6Addr(iface))
                   /\ IF CacheIface(iface6, ParseIpv6Addr(iface)) = None
                      THEN result' = "Panic" /\ UNCHANGED idx
                      ELSE IF Contains(net[1], CacheIface(iface6, ParseIpv6Addr(iface))[1])
                      THEN result' = "OkTrue" /\ UNCHANGED idx
                      ELSE idx' = idx + 1 /\ UNCHANGED result
    /\ UNCHANGED <<fn, iface, ifaces, subnets, iface4>>

\* iface_in_any_subnet, one iteration on a network text that does not parse.
AnySubnetErr ==
    /\ InLoop("iface_in_any_subnet")
    /\ ParseNetAddr(subnets[idx]) = None
    /\ result' = AnyNetParseError
    /\ UNCHANGED <<fn, iface, ifaces, subnets, idx, iface4, iface6>>

\* iface_in_any_subnet, the end of the loop.
AnySubnetEnd ==
    /\ Running("iface_in_any_subnet")
    /\ idx > Len(subnets)
    /\ result' = NoSubnetMatched
    /\ UNCHANGED <<fn, iface, ifaces, subnets, idx, iface4, iface6>>

\* iface_in_all_subnets, one iteration.
AllSubnetsStep ==
    /\ InLoop("iface_in_all_subnets")
    /\ IF IsOkFalse(IfaceInSubnet(iface, subnets[idx]))
       THEN result' = "OkFalse" /\ UNCHANGED idx
       ELSE idx' = idx + 1 /\ UNCHANGED result
    /\ UNCHANGED <<fn, iface, ifaces, subnets, iface4, iface6>>

\* iface_in_all_subnets, the end of the loop.
AllSubnetsEnd ==
    /\ Running("iface_in_all_subnets")
    /\ idx > Len(subnets)
    /\ result' = AllSubnetsMatched
    /\ UNCHANGED <<fn, iface, ifaces, subnets, idx, iface4, iface6>>

\* any_iface_in_any_subnet, one iteration on an IPv4 network.
AnyAnyV4 ==
    /\ InLoop("any_iface_in_any_subnet")
    /\ LET net == ParseNetAddr(subnets[idx])
       IN  /\ net # None
           /\ net[1].family = "V4"
           /\ IF AnyIface4In(net[1], ifaces)
              THEN result' = "OkTrue" /\ UNCHANGED idx
              ELSE idx' = idx + 1 /\ UNCHANGED result
    /\ UNCHANGED <<fn, iface, ifaces, subnets, iface4, iface6>>

\* any_iface_in_any_subnet, one iteration on an IPv6 network.
AnyAnyV6 ==
    /\ InLoop("any_iface_in_any_subnet")
    /\ LET net == ParseNetAddr(subnets[idx])
       IN  /\ net # None
           /\ net[1].family = "V6"
           /\ IF AnyIface6In(net[1], ifaces)
              THEN result' = "OkTrue" /\ UNCHANGED idx
              ELSE idx' = idx + 1 /\ UNCHANGED result
    /\ UNCHANGED <<fn, iface, ifaces, subnets, iface4, iface6>>

\* any_iface_in_any_subnet, one iteration on a network text that does not parse.
AnyAnyErr ==
    /\ InLoop("any_iface_in_any_subnet")
    /\ ParseNetAddr(subnets[idx]) = None
    /\ result' = AnyAnyNetParseError
    /\ UNCHANGED <<fn, iface, ifaces, subnets, idx, iface4, iface6>>

\* any_iface_in_any_subnet, the end of the loop.
AnyAnyEnd ==
    /\ Running("any_iface_in_any_subnet")
    /\ idx > Len(subnets)
    /\ result' = "OkFalse"
    /\ UNCHANGED <<fn, iface, ifaces, subnets, idx, iface4, iface6>>

Next ==
    \/ CallIfaceInSubnet
    \/ AnySubnetV4
    \/ AnySubnetV6
    \/ AnySubnetErr
    \/ AnySubnetEnd
    \/ AllSubnetsStep
    \/ AllSubnetsEnd
    \/ AnyAnyV4
    \/ AnyAnyV6
    \/ AnyAnyErr
    \/ AnyAnyEnd

Spec == Init /\ [][Next]_vars
----------------------------------------------------------------------------
\* Vocabulary of the properties.

Done(f) == fn = f /\ result # "Pending"

WellFormedNet(text) == ParseNetAddr(text) # None

AllWellFormed == \A k \in 1..Len(subnets) : WellFormedNet(subnets[k])

Malformed == {k \in 1..Len(subnets) : ~WellFormedNet(subnets[k])}

Least(S) == CHOOSE k \in S : \A j \in S : k <= j

NetFamily(text) == ParseNetAddr(text)[1].family

Width(family) == IF family = "V4" THEN V4Width ELSE V6Width

ParseAddrAs(family, text) ==
    IF family = "V4" THEN Ipv4AddrFromStr(text) ELSE Ipv6AddrFromStr(text)

\* The base address and the prefix length a well-formed network text states.
BaseOf(text) == ParseAddrAs(NetFamily(text), NetParts(text)[1])[1]

PrefixOf(text) == ParsePrefix(NetParts(text)[2])[1]

AgreeOnLeading(a, b, p) == \A k \in 1..p : a[k] = b[k]

\* The candidate addresses of the running call.
Candidates == IF fn = "any_iface_in_any_subnet" THEN {ifaces[k] : k \in 1..Len(ifaces)} ELSE {iface}

\* Network k contains a candidate address, by iface_in_subnet.
Hit(k) == \E a \in Candidates : IfaceInSubnet(a, subnets[k]) = "OkTrue"

AnyFunctions == {"iface_in_any_subnet", "any_iface_in_any_subnet"}

----------------------------------------------------------------------------
\* C1: for a well-formed network text (base B, prefix length p) and an
\* address text that parses in the network's family as A, iface_in_subnet
\* returns Ok(b) with b true exactly when A and B agree on their leading p
\* bits, whatever the host bits of B; Ok(true) when p = 0, Ok(A = B) when p
\* is the full width.
C1_MaskAndCompare ==
    (Done("iface_in_subnet") /\ WellFormedNet(subnets[1])) =>
        LET N == subnets[1]
            A == ParseAddrAs(NetFamily(N), iface)
            B == BaseOf(N)
            p == PrefixOf(N)
        IN  A # None =>
              /\ result = Ok(AgreeOnLeading(A[1], B, p))
              /\ (p = 0 => result = "OkTrue")
              /\ (p = Width(NetFamily(N)) => result = Ok(A[1] = B))

\* An address other than the base is found in a network whose base has
\* non-zero host bits and whose prefix length is strictly inside the width.
C1_Witness ==
    /\ Done("iface_in_subnet")
    /\ WellFormedNet(subnets[1])
    /\ ParseAddrAs(NetFamily(subnets[1]), iface) # None
    /\ ParseAddrAs(NetFamily(subnets[1]), iface)[1] # BaseOf(subnets[1])
    /\ BaseOf(subnets[1]) # ParseNetAddr(subnets[1])[1].addr
    /\ PrefixOf(subnets[1]) \in 1..(Width(NetFamily(subnets[1])) - 1)
    /\ result = "OkTrue"

\* C2: for a well-formed network text and an address text that does not
\* parse as an address of the network's family, iface_in_subnet returns
\* Ok(false), never an error.
C2_ForeignIfaceIsFalse ==
    (/\ Done("iface_in_subnet")
     /\ WellFormedNet(subnets[1])
     /\ ParseAddrAs(NetFamily(subnets[1]), iface) = None) => result = "OkFalse"

\* A valid IPv6 address is tested against an IPv4 network.
C2_Witness ==
    /\ Done("iface_in_subnet")
    /\ WellFormedNet(subnets[1])
    /\ NetFamily(subnets[1]) = "V4"
    /\ ParseIpv6Addr(iface) # None
    /\ result = "OkFalse"

\* C3: iface_in_subnet returns an error if and only if the network text
\* does not parse, whatever the address text is.
C3_ErrIffNetMalformed ==
    Done("iface_in_subnet") => (result = "Err" <=> ~WellFormedNet(subnets[1]))

\* A malformed network with a malformed address gives the error.
C3_Witness ==
    /\ Done("iface_in_subnet")
    /\ ~WellFormedNet(subnets[1])
    /\ ParseIpv4Addr(iface) = None
    /\ ParseIpv6Addr(iface) = None
    /\ result = "Err"

\* C4: iface_in_all_subnets returns the parse error when a malformed network
\* text is reached before any well-formed network that does not contain the
\* address.
C4_AllSubnetsPropagatesErr ==
    Done("iface_in_all_subnets") =>
        \A k \in Malformed :
            (\A j \in 1..(k - 1) : IfaceInSubnet(iface, subnets[j]) # "OkFalse")
                => result = "Err"

\* C5 as stated: iface_in_any_subnet and any_iface_in_any_subnet return a
\* parse error whenever some network text of the list is malformed, at
\* whatever position.
C5_ErrWhereverMalformed ==
    (fn \in AnyFunctions /\ result # "Pending" /\ Malformed # {}) => result = "Err"

\* C5 as amended: with a malformed network text in the list, the call returns
\* the parse error unless a network before the first malformed one contains
\* a candidate address, and then it returns Ok(true).
C5_ErrUnlessEarlierHit ==
    (fn \in AnyFunctions /\ result # "Pending" /\ Malformed # {}) =>
        result = IF \E j \in 1..(Least(Malformed) - 1) : Hit(j) THEN "OkTrue" ELSE "Err"

\* The error comes from a malformed network that is not the first of the list.
C5_Witness ==
    /\ Done("any_iface_in_any_subnet")
    /\ Malformed # {}
    /\ Least(Malformed) >= 2
    /\ ifaces # <<>>
    /\ result = "Err"

\* C6: over well-formed network texts, iface_in_any_subnet returns Ok(true)
\* if and only if iface_in_subnet is Ok(true) for at least one network of the
\* list, and Ok(false) otherwise (the empty list included).
C6_AnySubnetIsExists ==
    (Done("iface_in_any_subnet") /\ AllWellFormed) =>
        result = Ok(\E k \in 1..Len(subnets) : IfaceInSubnet(iface, subnets[k]) = "OkTrue")

\* The match comes after a network of the other family.
C6_Witness ==
    /\ Done("iface_in_any_subnet")
    /\ AllWellFormed
    /\ Len(subnets) >= 2
    /\ NetFamily(subnets[1]) # NetFamily(subnets[Len(subnets)])
    /\ IfaceInSubnet(iface, subnets[1]) = "OkFalse"
    /\ result = "OkTrue"

\* C7: over well-formed network texts, iface_in_all_subnets returns Ok(true)
\* if and only if iface_in_subnet is Ok(true) for every network of the list
\* (the empty list included), and Ok(false) at the first network that does
\* not contain the address.
C7_AllSubnetsIsForall ==
    (Done("iface_in_all_subnets") /\ AllWellFormed) =>
        LET misses == {k \in 1..Len(subnets) : IfaceInSubnet(iface, subnets[k]) # "OkTrue"}
        IN  /\ result = Ok(misses = {})
            /\ (misses # {} => idx = Least(misses))

\* Every network of a list of two or more contains the address.
C7_Witness ==
    /\ Done("iface_in_all_subnets")
    /\ AllWellFormed
    /\ Len(subnets) >= 2
    /\ subnets[1] # subnets[2]
    /\ result = "OkTrue"

\* C8: over well-formed network texts, any_iface_in_any_subnet returns
\* Ok(true) if and only if iface_in_subnet is Ok(true) for some address of
\* the one list and some network of the other, and Ok(false) otherwise
\* (either list empty included).
C8_AnyAnyIsExistsPair ==
    (Done("any_iface_in_any_subnet") /\ AllWellFormed) =>
        result = Ok(\E i \in 1..Len(ifaces) : \E k \in 1..Len(subnets) :
                        IfaceInSubnet(ifaces[i], subnets[k]) = "OkTrue")

\* The matching address follows one that does not parse in the network's family.
C8_Witness ==
    /\ Done("any_iface_in_any_subnet")
    /\ AllWellFormed
    /\ Len(ifaces) >= 2
    /\ idx <= Len(subnets)
    /\ ParseAddrAs(NetFamily(subnets[idx]), ifaces[1]) = None
    /\ result = "OkTrue"

\* C9: iface_in_any_subnet and any_iface_in_any_subnet go through the
\* networks in list order and stop at the first decisive one, a network that
\* is malformed or contains a candidate address: the parse error if it is
\* malformed, Ok(true) otherwise, with no later network looked at; Ok(false)
\* when no network is decisive.
C9_FirstDecisiveNetwork ==
    (fn \in AnyFunctions /\ result # "Pending") =>
        LET decisive == {k \in 1..Len(subnets) : k \in Malformed \/ Hit(k)}
        IN  IF decisive = {}
            THEN result = "OkFalse" /\ idx = Len(subnets) + 1
            ELSE /\ idx = Least(decisive)
                 /\ result = IF idx \in Malformed THEN "Err" ELSE "OkTrue"

\* Ok(true) is returned with a malformed network later in the list.
C9_Witness ==
    /\ Done("iface_in_any_subnet")
    /\ result = "OkTrue"
    /\ \E k \in Malformed : k > idx

\* C10: in iface_in_any_subnet a cached address is never unwrapped while
\* empty: a filled cache holds the address text parsed in its family, it is
\* filled whenever a network of its family has been tested, and the call
\* never panics: its result is Ok(true), Ok(false) or the parse error, and
\* while it runs the loop has a next network or its end to go to.
C10_CacheNeverEmptyAtUnwrap ==
    fn = "iface_in_any_subnet" =>
        /\ result \in {"Pending", "OkTrue", "OkFalse", "Err"}
        /\ iface4 \in {None, ParseIpv4Addr(iface)}
        /\ iface6 \in {None, ParseIpv6Addr(iface)}
        /\ \A k \in 1..Len(subnets) :
              (k < idx \/ (k = idx /\ result = "OkTrue")) =>
                  /\ (NetFamily(subnets[k]) = "V4" /\ ParseIpv4Addr(iface) # None) => iface4 # None
                  /\ (NetFamily(subnets[k]) = "V6" /\ ParseIpv6Addr(iface) # None) => iface6 # None
        /\ (result = "OkTrue" =>
              IF NetFamily(subnets[idx]) = "V4" THEN iface4 # None ELSE iface6 # None)
        /\ (result = "Pending" => idx \in 1..(Len(subnets) + 1))

\* Both families of networks were gone through: one cache stayed empty,
\* the other was filled and gave the match.
C10_Witness ==
    /\ Done("iface_in_any_subnet")
    /\ idx >= 2
    /\ NetFamily(subnets[1]) = "V4"
    /\ iface4 = None
    /\ iface6 # None
    /\ result = "OkTrue"
====
